---- MODULE Spec2Model ----
(***************************************************************************)
(* A model of bwamem.c: the batch driver (mem_process_seqs, worker1,       *)
(* worker2) and the per-read pipeline (mem_chain, mem_chain_flt,           *)
(* mem_sort_and_dedup, mem_mark_primary_se, mem_sam_se, bwa_hit2sam).      *)
(***************************************************************************)
EXTENDS Integers, Sequences, FiniteSets, TLC

(***************************************************************************)
(* Bounds of the batch driver model.                                       *)
(***************************************************************************)
MaxThreads == 3
MaxReads == 4

VARIABLES
    \* ---- batch driver (mem_process_seqs) ----
    have_pthread,   \* TRUE when built with HAVE_PTHREAD
    n_threads,      \* opt->n_threads
    n,              \* number of reads of the batch
    flag_pe,        \* opt->flag & MEM_F_PE
    mpc,            \* position of the thread that called mem_process_seqs
    mi,             \* its loop counter i
    wpc,            \* position of each worker (w[k])
    wi,             \* loop counter i of each worker
    regs,           \* regs[i]: "uninit", "alloc" or "freed"
    sam,            \* seqs[i].sam: "uninit", "set" or "freed"
    by1,            \* by1[i]: the workers whose worker1 wrote regs[i]
    by2,            \* by2[i]: the workers whose worker2 wrote seqs[i].sam and freed regs[i].a
    out,            \* what fputs() was called with, in call order
    ub,             \* undefined behaviour has happened (race, double free, uninitialised read)
    \* ---- one read (find_alnreg, then the single-end body of worker2) ----
    opt,            \* the mem_opt_t in use
    l_pac,          \* bns->l_pac
    l_seq,          \* s->l_seq
    rpc,            \* position in the read's pipeline
    itr,            \* the SMEM iterator: intervals delivered so far, query start of the last one
    pend,           \* the interval whose occurrences mem_insert_seed is expanding (loop of line 174)
    tree,           \* the chains of the B-tree, in key order
    chn,            \* the chain vector chn (chn.n = Len(chn))
    chn0,           \* the chains handed to mem_chain_flt
    flt,            \* what mem_chain_flt computed on the way: weights, accepted, kept
    av0,            \* the array handed to mem_sort_and_dedup
    av,             \* regs (regs.n = Len(av))
    samtext,        \* s->sam, a sequence of SAM lines
    ext,            \* the last call of mem_chain2aln: its chain, the fetch, the seeds extended
    gc              \* a call of bwa_gen_cigar: its arguments and what it did

bvars == <<have_pthread, n_threads, n, flag_pe, mpc, mi, wpc, wi, regs, sam, by1, by2, out, ub>>

rvars == <<opt, l_pac, l_seq, rpc, itr, pend, tree, chn, chn0, flt, av0, av, samtext, ext, gc>>

cvars == <<itr, pend, tree, chn, chn0, flt>>

xvars == <<ext, gc>>

vars == <<bvars, rvars>>

Workers == 0 .. (MaxThreads - 1)
Reads == 0 .. (MaxReads - 1)

Min(a, b) == IF a < b THEN a ELSE b
Max(a, b) == IF a > b THEN a ELSE b

\* mem_opt_init, lines 56-70: the default options
DefaultOpt ==
    [a |-> 1, b |-> 4, q |-> 6, r |-> 1, w |-> 100,
     min_seed_len |-> 19, max_occ |-> 10000, max_chain_gap |-> 10000,
     mask_level |-> [num |-> 1, den |-> 2],
     chain_drop_ratio |-> [num |-> 1, den |-> 2],
     hardclip |-> FALSE]

\* no interval is being expanded
NoPend == [qbeg |-> 0, len |-> 0, k |-> 0, used |-> {}]

\* no filtering has taken place
NoFlt == [a |-> <<>>, acc |-> <<>>, kept |-> {}, freed |-> {}, ret |-> <<>>]

\* mem_chain2aln has not been called
NoExt == [c |-> <<>>, full |-> FALSE, steps |-> <<>>]

\* bwa_gen_cigar is not being looked at
NoGc == [pc |-> "idle"]

\* the chainer and the chain filter before mem_chain is called
ChainIdle ==
    /\ itr = [n |-> 0, qbeg |-> 0]
    /\ pend = NoPend
    /\ tree = <<>>
    /\ chn = <<>>
    /\ chn0 = <<>>
    /\ flt = NoFlt
    /\ ext = NoExt
    /\ gc = NoGc

\* the read pipeline at rest, while the batch driver is looked at
ReadIdle ==
    /\ opt = DefaultOpt
    /\ l_pac = 0
    /\ l_seq = 0
    /\ rpc = "idle"
    /\ ChainIdle
    /\ av0 = <<>>
    /\ av = <<>>
    /\ samtext = <<>>

\* the batch driver at rest, while one read is looked at
BatchIdle ==
    /\ have_pthread = FALSE
    /\ n_threads = 1
    /\ n = 0
    /\ flag_pe = FALSE
    /\ mpc = "idle"
    /\ mi = 0
    /\ wpc = [k \in 0 .. (MaxThreads - 1) |-> "idle"]
    /\ wi = [k \in 0 .. (MaxThreads - 1) |-> 0]
    /\ regs = [i \in 0 .. (MaxReads - 1) |-> "uninit"]
    /\ sam = [i \in 0 .. (MaxReads - 1) |-> "uninit"]
    /\ by1 = [i \in 0 .. (MaxReads - 1) |-> {}]
    /\ by2 = [i \in 0 .. (MaxReads - 1) |-> {}]
    /\ out = <<>>
    /\ ub = FALSE

(***************************************************************************)
(* mem_process_seqs, lines 709-717: the worker structures.                 *)
(***************************************************************************)
WStart(k) == k
WStep(k) == n_threads

\* The threaded branch (lines 723-732) is taken with HAVE_PTHREAD and n_threads != 1.
Threaded == have_pthread /\ n_threads # 1

InitBatch ==
    /\ have_pthread \in BOOLEAN
    /\ n_threads \in 1 .. MaxThreads
    /\ n \in 0 .. MaxReads
    /\ flag_pe \in BOOLEAN
    /\ mpc = IF have_pthread /\ n_threads # 1 THEN "create1" ELSE "call1"
    /\ mi = 0
    /\ wpc = [k \in Workers |-> "idle"]
    /\ wi = [k \in Workers |-> 0]
    /\ regs = [i \in Reads |-> "uninit"]
    /\ sam = [i \in Reads |-> "uninit"]
    /\ by1 = [i \in Reads |-> {}]
    /\ by2 = [i \in Reads |-> {}]
    /\ out = <<>>
    /\ ub = FALSE
    /\ ReadIdle

Alive == mpc \notin {"done", "abort"}

(***************************************************************************)
(* worker1, lines 675-676: one iteration of the loop, or its exit.         *)
(***************************************************************************)
W1First(k) == WStart(k)

Worker1Step(k) ==
    /\ Alive
    /\ wpc[k] = "w1"
    /\ IF wi[k] < n
       THEN /\ regs' = [regs EXCEPT ![wi[k]] = "alloc"]
            /\ by1' = [by1 EXCEPT ![wi[k]] = @ \cup {k}]
            /\ ub' = (ub \/ by1[wi[k]] # {})
            /\ wi' = [wi EXCEPT ![k] = @ + WStep(k)]
            /\ wpc' = wpc
       ELSE /\ wpc' = [wpc EXCEPT ![k] = "ret1"]
            /\ UNCHANGED <<regs, by1, ub, wi>>
    /\ UNCHANGED rvars
    /\ UNCHANGED <<have_pthread, n_threads, n, flag_pe, mpc, mi, sam, by2, out>>

(***************************************************************************)
(* worker2, lines 685-698.  Single-end: the loop of lines 686-690 over     *)
(* reads; paired-end: the loop of lines 693-696 over pairs.                *)
(***************************************************************************)
W2First(k) == 0

W2Bound == IF flag_pe THEN n \div 2 ELSE n

\* the reads one iteration with loop counter i touches
W2Reads(i) == IF flag_pe THEN {2 * i, 2 * i + 1} ELSE {i}

\* lines 687-688 (mem_mark_primary_se, mem_sam_se) or line 694 (mem_sam_pe)
Worker2Sam(k) ==
    /\ Alive
    /\ wpc[k] = "w2"
    /\ IF wi[k] < W2Bound
       THEN /\ sam' = [i \in Reads |-> IF i \in W2Reads(wi[k]) THEN "set" ELSE sam[i]]
            /\ by2' = [i \in Reads |-> IF i \in W2Reads(wi[k]) THEN by2[i] \cup {k} ELSE by2[i]]
            /\ ub' = (ub \/ \E i \in W2Reads(wi[k]) : regs[i] # "alloc" \/ by2[i] # {})
            /\ wpc' = [wpc EXCEPT ![k] = "w2free"]
       ELSE /\ wpc' = [wpc EXCEPT ![k] = "ret2"]
            /\ UNCHANGED <<sam, by2, ub>>
    /\ UNCHANGED rvars
    /\ UNCHANGED <<have_pthread, n_threads, n, flag_pe, mpc, mi, wi, regs, by1, out>>

\* line 689 or line 695: free(regs[i].a), then i += step
Worker2Free(k) ==
    /\ Alive
    /\ wpc[k] = "w2free"
    /\ regs' = [i \in Reads |-> IF i \in W2Reads(wi[k]) THEN "freed" ELSE regs[i]]
    /\ ub' = (ub \/ \E i \in W2Reads(wi[k]) : regs[i] # "alloc")
    /\ wi' = [wi EXCEPT ![k] = @ + WStep(k)]
    /\ wpc' = [wpc EXCEPT ![k] = "w2"]
    /\ UNCHANGED rvars
    /\ UNCHANGED <<have_pthread, n_threads, n, flag_pe, mpc, mi, sam, by1, by2, out>>

(***************************************************************************)
(* mem_process_seqs, sequential branches (lines 719-722 and 734-736):      *)
(* worker1(w) and worker2(w) run w[0] in the calling thread.               *)
(***************************************************************************)
AfterPass1 == IF flag_pe THEN "pestat" ELSE IF Threaded THEN "create2" ELSE "call2"

Call1 ==
    /\ mpc = "call1"
    /\ wpc' = [wpc EXCEPT ![0] = "w1"]
    /\ wi' = [wi EXCEPT ![0] = W1First(0)]
    /\ mpc' = "in1"
    /\ UNCHANGED rvars
    /\ UNCHANGED <<have_pthread, n_threads, n, flag_pe, mi, regs, sam, by1, by2, out, ub>>

Return1 ==
    /\ mpc = "in1"
    /\ wpc[0] = "ret1"
    /\ mpc' = AfterPass1
    /\ UNCHANGED rvars
    /\ UNCHANGED <<have_pthread, n_threads, n, flag_pe, mi, wpc, wi, regs, sam, by1, by2, out, ub>>

Call2 ==
    /\ mpc = "call2"
    /\ wpc' = [wpc EXCEPT ![0] = "w2"]
    /\ wi' = [wi EXCEPT ![0] = W2First(0)]
    /\ mpc' = "in2"
    /\ UNCHANGED rvars
    /\ UNCHANGED <<have_pthread, n_threads, n, flag_pe, mi, regs, sam, by1, by2, out, ub>>

Return2 ==
    /\ mpc = "in2"
    /\ wpc[0] = "ret2"
    /\ mpc' = "out"
    /\ mi' = 0
    /\ UNCHANGED rvars
    /\ UNCHANGED <<have_pthread, n_threads, n, flag_pe, wpc, wi, regs, sam, by1, by2, out, ub>>

(***************************************************************************)
(* mem_pestat (lines 721, 728, 735): reads regs[0..n-1].                   *)
(***************************************************************************)
Pestat ==
    /\ mpc = "pestat"
    /\ ub' = (ub \/ \E i \in Reads : i < n /\ regs[i] # "alloc")
    /\ mpc' = IF Threaded THEN "create2" ELSE "call2"
    /\ UNCHANGED rvars
    /\ UNCHANGED <<have_pthread, n_threads, n, flag_pe, mi, wpc, wi, regs, sam, by1, by2, out>>

(***************************************************************************)
(* mem_process_seqs, threaded branch (lines 724-731).                      *)
(***************************************************************************)
\* pthread_join(tid[k]) returns once thread k has returned from its worker
JoinedMut(k, p) == TRUE

Joined(k, p) == wpc[k] = (IF p = 1 THEN "ret1" ELSE "ret2")

\* line 726: pthread_create(&tid[i], 0, worker1, &w[i])
Create1 ==
    /\ mpc = "create1"
    /\ wpc' = [wpc EXCEPT ![mi] = "w1"]
    /\ wi' = [wi EXCEPT ![mi] = W1First(mi)]
    /\ IF mi + 1 < n_threads
       THEN mi' = mi + 1 /\ mpc' = mpc
       ELSE mi' = 0 /\ mpc' = "join1"
    /\ UNCHANGED rvars
    /\ UNCHANGED <<have_pthread, n_threads, n, flag_pe, regs, sam, by1, by2, out, ub>>

\* line 727: pthread_join(tid[i], 0)
Join1 ==
    /\ mpc = "join1"
    /\ Joined(mi, 1)
    /\ IF mi + 1 < n_threads
       THEN mi' = mi + 1 /\ mpc' = mpc
       ELSE mi' = 0 /\ mpc' = AfterPass1
    /\ UNCHANGED rvars
    /\ UNCHANGED <<have_pthread, n_threads, n, flag_pe, wpc, wi, regs, sam, by1, by2, out, ub>>

\* line 729: pthread_create(&tid[i], 0, worker2, &w[i])
Create2 ==
    /\ mpc = "create2"
    /\ wpc' = [wpc EXCEPT ![mi] = "w2"]
    /\ wi' = [wi EXCEPT ![mi] = W2First(mi)]
    /\ IF mi + 1 < n_threads
       THEN mi' = mi + 1 /\ mpc' = mpc
       ELSE mi' = 0 /\ mpc' = "join2"
    /\ UNCHANGED rvars
    /\ UNCHANGED <<have_pthread, n_threads, n, flag_pe, regs, sam, by1, by2, out, ub>>

\* line 730: pthread_join(tid[i], 0)
Join2 ==
    /\ mpc = "join2"
    /\ Joined(mi, 2)
    /\ IF mi + 1 < n_threads
       THEN mi' = mi + 1 /\ mpc' = mpc
       ELSE mi' = 0 /\ mpc' = "out"
    /\ UNCHANGED rvars
    /\ UNCHANGED <<have_pthread, n_threads, n, flag_pe, wpc, wi, regs, sam, by1, by2, out, ub>>

(***************************************************************************)
(* mem_process_seqs, lines 738-743: the output loop and the return.        *)
(***************************************************************************)
Output ==
    /\ mpc = "out"
    /\ IF mi < n
       THEN /\ out' = Append(out, [idx |-> mi, text |-> IF sam[mi] = "set" THEN "sam" ELSE "garbage"])
            /\ ub' = (ub \/ sam[mi] # "set")
            /\ sam' = [sam EXCEPT ![mi] = "freed"]
            /\ mi' = mi + 1
            /\ mpc' = mpc
       ELSE /\ mpc' = "done"
            /\ UNCHANGED <<out, ub, sam, mi>>
    /\ UNCHANGED rvars
    /\ UNCHANGED <<have_pthread, n_threads, n, flag_pe, wpc, wi, regs, by1, by2>>

\* Once the behaviour is undefined the process may die at any point.
Abort ==
    /\ Alive
    /\ ub
    /\ mpc' = "abort"
    /\ UNCHANGED rvars
    /\ UNCHANGED <<have_pthread, n_threads, n, flag_pe, mi, wpc, wi, regs, sam, by1, by2, out, ub>>

NextBatch ==
    \/ \E k \in Workers : Worker1Step(k)
    \/ \E k \in Workers : Worker2Sam(k)
    \/ \E k \in Workers : Worker2Free(k)
    \/ Call1
    \/ Return1
    \/ Call2
    \/ Return2
    \/ Pestat
    \/ Create1
    \/ Join1
    \/ Create2
    \/ Join2
    \/ Output
    \/ Abort

Spec == InitBatch /\ [][NextBatch]_vars

(***************************************************************************)
(* Bounds of the alignment-region model.                                   *)
(***************************************************************************)
MaxRegs == 3
MaxQ == 3

\* a * num/den as the comparison the code makes in floating point:
\* lhs >= x * (num/den)  and  lhs < x * (num/den)
GeFrac(lhs, x, f) == lhs * f.den >= x * f.num
LtFrac(lhs, x, f) == lhs * f.den < x * f.num

\* a mem_alnreg_t as mem_chain2aln leaves it (memset to 0, then lines 430-447)
Reg(qb, qe, rb, re, score, seedcov) ==
    [qb |-> qb, qe |-> qe, rb |-> rb, re |-> re, score |-> score,
     sub |-> 0, csub |-> 0, sub_n |-> 0, seedcov |-> seedcov, secondary |-> 0]

(***************************************************************************)
(* mem_sort_and_dedup, lines 331-349.                                      *)
(***************************************************************************)
\* line 331
alnreg_slt(a, b) ==
    \/ a.score > b.score
    \/ /\ a.score = b.score
       /\ \/ a.rb < b.rb
          \/ a.rb = b.rb /\ a.qb < b.qb

Perms(m) == {p \in [1 .. m -> 1 .. m] : \A i, j \in 1 .. m : i # j => p[i] # p[j]}

\* ks_introsort(mem_ars, n, a): an unstable sort, so any arrangement of the
\* array that the comparison accepts as sorted
IsSortedArs(a) == \A i, j \in 1 .. Len(a) : i < j => ~alnreg_slt(a[j], a[i])

SortsArs(a) == {s \in {[i \in 1 .. Len(a) |-> a[p[i]]] : p \in Perms(Len(a))} : IsSortedArs(s)}

\* line 340: the test for an identical hit
IdenticalHitMut(x, y) == x.score = y.score /\ x.rb = y.rb

IdenticalHit(x, y) == x.score = y.score /\ x.rb = y.rb /\ x.qb = y.qb

\* lines 339-342, from index i on (1-based here)
RECURSIVE MarkIdentical(_, _)
MarkIdentical(a, i) ==
    IF i > Len(a) THEN a
    ELSE MarkIdentical(
            IF IdenticalHit(a[i], a[i - 1]) THEN [a EXCEPT ![i].qe = a[i].qb] ELSE a,
            i + 1)

\* lines 343-347, from index i on with m kept so far; the result is a[0..m-1]
RECURSIVE ExcludeIdentical(_, _, _)
ExcludeIdentical(a, i, m) ==
    IF i > Len(a) THEN SubSeq(a, 1, m)
    ELSE IF a[i].qe > a[i].qb
         THEN ExcludeIdentical([a EXCEPT ![m + 1] = a[i]], i + 1, m + 1)
         ELSE ExcludeIdentical(a, i + 1, m)

\* mem_sort_and_dedup(n, a) with the arrangement s the sort produced
mem_sort_and_dedup(a, s) ==
    IF Len(a) <= 1 THEN a
    ELSE ExcludeIdentical(MarkIdentical(s, 2), 2, 1)

(***************************************************************************)
(* mem_mark_primary_se, lines 351-378.                                     *)
(***************************************************************************)
\* lines 363-367: regions i and j overlap significantly on the query
SignificantOvlMut(ai, aj, f) ==
    Min(aj.qe, ai.qe) > Max(aj.qb, ai.qb)

SignificantOvl(ai, aj, f) ==
    LET b_max == Max(aj.qb, ai.qb)
        e_min == Min(aj.qe, ai.qe)
        min_l == Min(ai.qe - ai.qb, aj.qe - aj.qb)
    IN  e_min > b_max /\ GeFrac(e_min - b_max, min_l, f)

\* line 361: the first k with a significant overlap, or Len(z) + 1
RECURSIVE FirstDominating(_, _, _, _)
FirstDominating(a, z, i, k) ==
    IF k > Len(z) THEN k
    ELSE IF SignificantOvl(a[i], a[z[k]], opt.mask_level) THEN k
         ELSE FirstDominating(a, z, i, k + 1)

\* line 375: what a dominated region records
SecondaryOf(z, k) == z[k] - 1

\* lines 360-376, from region i on (1-based; z holds 1-based indices)
RECURSIVE MarkLoop(_, _, _)
MarkLoop(a, z, i) ==
    IF i > Len(a) THEN a
    ELSE LET k == FirstDominating(a, z, i, 1)
             tmp == Max(opt.a + opt.b, opt.q + opt.r)
         IN  IF k > Len(z)
             THEN MarkLoop(a, Append(z, i), i + 1)
             ELSE LET j == z[k]
                      s1 == IF a[j].sub = 0 THEN a[i].score ELSE a[j].sub
                      n1 == IF a[j].score - a[i].score <= tmp THEN a[j].sub_n + 1 ELSE a[j].sub_n
                      a1 == [a EXCEPT ![j].sub = s1, ![j].sub_n = n1,
                                      ![i].secondary = SecondaryOf(z, k)]
                  IN  MarkLoop(a1, z, i + 1)

mem_mark_primary_se(a) ==
    IF Len(a) = 0 THEN a
    ELSE MarkLoop([i \in 1 .. Len(a) |-> [a[i] EXCEPT !.sub = 0, !.secondary = -1]], <<1>>, 2)

(***************************************************************************)
(* Hit -> SAM conversion, lines 464-636.                                   *)
(***************************************************************************)
HasBit(f, b) == (f \div b) % 2 = 1

\* f | b
RECURSIVE BitOr(_, _)
BitOr(f, b) ==
    IF f = 0 THEN b
    ELSE IF b = 0 THEN f
    ELSE (IF f % 2 = 1 \/ b % 2 = 1 THEN 1 ELSE 0) + 2 * BitOr(f \div 2, b \div 2)

\* a null bwahit_t pointer (p_ == 0, m == 0)
NullHit ==
    [null |-> TRUE, rb |-> -1, re |-> -1, qb |-> 0, qe |-> 0,
     score |-> 0, sub |-> 0, qual |-> "0", flag |-> 0]

\* mem_approx_mapq_se, lines 595-609: "0" where the code returns or clamps to
\* zero for certain, "0..60" for the clamped value of the floating-point formula
mem_approx_mapq_se(a) ==
    LET sub0 == IF a.sub # 0 THEN a.sub ELSE opt.min_seed_len * opt.a
        sub == IF a.csub > sub0 THEN a.csub ELSE sub0
    IN  IF sub >= a.score THEN "0" ELSE "0..60"

\* mem_alnreg2hit, lines 611-618
mem_alnreg2hit(a) ==
    [null |-> FALSE, rb |-> a.rb, re |-> a.re, qb |-> a.qb, qe |-> a.qe,
     score |-> a.score, sub |-> Max(a.sub, a.csub), qual |-> "0",
     flag |-> IF a.secondary >= 0 THEN 256 ELSE 0]

\* line 501
is_mapped(x) == x.rb >= 0 /\ x.rb < x.re /\ x.re <= 2 * l_pac

\* What the collaborators of bwa_gen_cigar may do: bns_get_seq returns a slice
\* of another length ("short"), ksw_global returns no operation ("empty") or
\* some operations ("ops").
ExtCigar == {"short", "empty", "ops"}

\* bwa_gen_cigar, lines 470-495: TRUE when *n_cigar > 0 on return
bwa_gen_cigar(l_query, rb, re, e) ==
    IF l_query <= 0 \/ rb >= re \/ (rb < l_pac /\ re > l_pac) THEN FALSE
    ELSE IF e = "short" THEN FALSE
    ELSE e = "ops"

\* line 524: the flag after CIGAR generation
FlagAfterCigarMut(flag, has_cigar) == flag

FlagAfterCigar(flag, has_cigar) == IF has_cigar THEN flag ELSE BitOr(flag, 4)

\* bwa_hit2sam, lines 507-545 and 584: FLAG, RNAME, POS, MAPQ and CIGAR of the
\* line, and its AS:i: tag (-1 when it has none)
bwa_hit2sam(p_, m, e) ==
    LET f1 == IF m.null THEN p_.flag ELSE BitOr(p_.flag, 1)
        f2 == IF ~is_mapped(p_) THEN BitOr(f1, 4) ELSE f1
        f3 == IF ~m.null /\ ~is_mapped(m) THEN BitOr(f2, 8) ELSE f2
        copy_mate == ~m.null /\ ~is_mapped(p_) /\ is_mapped(m)
        p == IF copy_mate
             THEN [p_ EXCEPT !.rb = m.rb, !.re = m.re, !.qb = 0, !.qe = l_seq]
             ELSE p_
        f4 == IF p.rb >= l_pac THEN BitOr(f3, 16) ELSE f3
        f5 == IF ~m.null /\ m.rb >= l_pac THEN BitOr(f4, 32) ELSE f4
        has_cigar == ~copy_mate /\ bwa_gen_cigar(p.qe - p.qb, p.rb, p.re, e)
    IN  IF is_mapped(p)
        THEN [flag |-> IF copy_mate THEN f5 ELSE FlagAfterCigar(f5, has_cigar),
              rname |-> "ref", pos |-> "coord", mapq |-> p.qual,
              cigar |-> IF has_cigar THEN "ops" ELSE "*",
              AS |-> IF p.score >= 0 THEN p.score ELSE -1]
        ELSE [flag |-> f5, rname |-> "*", pos |-> "0", mapq |-> "0", cigar |-> "*",
              AS |-> IF p.score >= 0 THEN p.score ELSE -1]

\* mem_sam_se, lines 626-633: the lines of regions k.. (1-based), e[k] being
\* what the collaborators do for region k
\* line 628: the region gets no line
SkipsRegionMut(r) == FALSE

SkipsRegion(r) == r.secondary >= 0

RECURSIVE SamLines(_, _, _, _, _)
SamLines(a, k, extra_flag, m, e) ==
    IF k > Len(a) THEN <<>>
    ELSE IF SkipsRegion(a[k]) THEN SamLines(a, k + 1, extra_flag, m, e)
    ELSE LET h0 == mem_alnreg2hit(a[k])
             h == [h0 EXCEPT !.flag = BitOr(h0.flag, extra_flag),
                             !.qual = mem_approx_mapq_se(a[k])]
         IN  <<bwa_hit2sam(h, m, IF k \in DOMAIN e THEN e[k] ELSE "ops")>>
                 \o SamLines(a, k + 1, extra_flag, m, e)

\* mem_sam_se, lines 620-636
mem_sam_se(a, extra_flag, m, e) ==
    IF Len(a) > 0 THEN SamLines(a, 1, extra_flag, m, e)
    ELSE <<bwa_hit2sam(NullHit, m, "ops")>>

(***************************************************************************)
(* The steps of one read from line 656 on: find_alnreg's last call, then   *)
(* the single-end body of worker2 (lines 687-688).                         *)
(***************************************************************************)
\* line 656: regs.n = mem_sort_and_dedup(regs.n, regs.a)
Dedup ==
    /\ rpc = "regs"
    /\ \E s \in SortsArs(av) : av' = mem_sort_and_dedup(av, s)
    /\ av0' = av
    /\ rpc' = "deduped"
    /\ UNCHANGED <<opt, l_pac, l_seq, samtext>>
    /\ UNCHANGED cvars
    /\ UNCHANGED xvars
    /\ UNCHANGED bvars

\* line 687: mem_mark_primary_se(w->opt, w->regs[i].n, w->regs[i].a)
MarkPrimary ==
    /\ rpc = "deduped"
    /\ av' = mem_mark_primary_se(av)
    /\ rpc' = "marked"
    /\ UNCHANGED <<opt, l_pac, l_seq, av0, samtext>>
    /\ UNCHANGED cvars
    /\ UNCHANGED xvars
    /\ UNCHANGED bvars

\* the regions for which bwa_hit2sam gets as far as calling the collaborators
\* of bwa_gen_cigar (lines 472 and 488)
ReachesKernel(a) ==
    {k \in 1 .. Len(a) :
        /\ a[k].secondary < 0
        /\ is_mapped(a[k])
        /\ a[k].qe - a[k].qb > 0
        /\ ~(a[k].rb < l_pac /\ a[k].re > l_pac)}

\* line 688: mem_sam_se(w->opt, w->bns, w->pac, &w->seqs[i], &w->regs[i], 0, 0)
SamSe ==
    /\ rpc = "marked"
    /\ \E e \in [ReachesKernel(av) -> ExtCigar] : samtext' = mem_sam_se(av, 0, NullHit, e)
    /\ rpc' = "done"
    /\ UNCHANGED <<opt, l_pac, l_seq, av0, av>>
    /\ UNCHANGED cvars
    /\ UNCHANGED xvars
    /\ UNCHANGED bvars

\* The regions find_alnreg may hand to mem_sort_and_dedup: qb < qe on a read
\* of l_seq bases, on either strand, with the score of an exact match of that
\* length (a = 1) or one less.
QbLtQe(r) == r.qb < r.qe

RegionInputs(lseq, lpac) ==
    {r \in {Reg(qb, qe, rb, rb + (qe - qb), score, qe - qb) :
                qb \in 0 .. (lseq - 1), qe \in 1 .. lseq, rb \in {0, lpac}, score \in 1 .. lseq} :
        QbLtQe(r) /\ r.score \in {r.qe - r.qb - 1, r.qe - r.qb}}

\* The sort is modelled as any sorted arrangement, so what follows depends on
\* the regions of the array and not on their order: one array is looked at
\* per collection of regions, pushed in ascending order of (qb, qe, rb, score).
RegionCode(r) == ((r.qb * 64 + r.qe) * 64 + r.rb) * 64 + r.score

\* lines 651-652: kv_push(mem_alnreg_t, regs, tmp.a[j])
PushReg ==
    /\ rpc = "regs"
    /\ Len(av) < MaxRegs
    /\ \E r \in RegionInputs(l_seq, l_pac) :
          /\ Len(av) > 0 => RegionCode(av[Len(av)]) <= RegionCode(r)
          /\ av' = Append(av, r)
    /\ UNCHANGED <<opt, l_pac, l_seq, rpc, av0, samtext>>
    /\ UNCHANGED cvars
    /\ UNCHANGED xvars
    /\ UNCHANGED bvars

\* the option sets looked at for one read's regions
RegsOpts ==
    {[DefaultOpt EXCEPT !.mask_level = f, !.min_seed_len = 1] :
        f \in {[num |-> 1, den |-> 2], [num |-> 1, den |-> 1]}}

InitRegs ==
    /\ BatchIdle
    /\ opt \in RegsOpts
    /\ l_pac \in {1, 2}
    /\ l_seq = MaxQ
    /\ rpc = "regs"
    /\ ChainIdle
    /\ av = <<>>
    /\ av0 = <<>>
    /\ samtext = <<>>

NextRegs ==
    \/ PushReg
    \/ Dedup
    \/ MarkPrimary
    \/ SamSe

SpecRegs == InitRegs /\ [][NextRegs]_vars

(***************************************************************************)
(* Bounds of the chaining model.                                           *)
(***************************************************************************)
MaxIntv == 2
MaxLpac == 3

(***************************************************************************)
(* Chaining, lines 143-236.  A seed is [qbeg, rbeg, len]; a chain is       *)
(* [pos, seeds] with n = Len(seeds).                                       *)
(***************************************************************************)
\* line 153: the seed, x and y away from the last seed on the query and on
\* the reference, grows the chain
GrowsMut(x, y, last_len) ==
    /\ x - y <= opt.w /\ y - x <= opt.w
    /\ x - last_len < opt.max_chain_gap /\ y - last_len < opt.max_chain_gap

Grows(x, y, last_len) ==
    /\ y >= 0
    /\ x - y <= opt.w /\ y - x <= opt.w
    /\ x - last_len < opt.max_chain_gap /\ y - last_len < opt.max_chain_gap

\* test_and_merge, lines 143-162: the value returned and the chain afterwards
test_and_merge(c, p) ==
    LET last == c.seeds[Len(c.seeds)]
        qend == last.qbeg + last.len
        rend == last.rbeg + last.len
        x == p.qbeg - last.qbeg
        y == p.rbeg - last.rbeg
    IN  IF /\ p.qbeg >= c.seeds[1].qbeg /\ p.qbeg + p.len <= qend
           /\ p.rbeg >= c.seeds[1].rbeg /\ p.rbeg + p.len <= rend
        THEN [ret |-> 1, c |-> c]
        ELSE IF Grows(x, y, last.len)
             THEN [ret |-> 1, c |-> [c EXCEPT !.seeds = Append(@, p)]]
             ELSE [ret |-> 0, c |-> c]

\* lines 186-188: the chain made of one seed
NewChain(s) == [pos |-> s.rbeg, seeds |-> <<s>>]

\* kb_intervalp (line 182): the chains that may come back as lower, those
\* with the largest key not above the key looked for
LowerSet(t, key) ==
    {i \in 1 .. Len(t) :
        /\ t[i].pos <= key
        /\ \A j \in 1 .. Len(t) : t[j].pos <= key => t[j].pos <= t[i].pos}

\* kb_putp (line 189): the places where the tree may hold the new chain
PutPlaces(t, c) ==
    {i \in 0 .. Len(t) :
        /\ \A j \in 1 .. i : t[j].pos <= c.pos
        /\ \A j \in (i + 1) .. Len(t) : t[j].pos >= c.pos}

PutAt(t, i, c) == SubSeq(t, 1, i) \o <<c>> \o SubSeq(t, i + 1, Len(t))

\* line 221: the query is shorter than the seed length
TooShortMut(len) == FALSE

TooShort(len) == len < opt.min_seed_len

\* mem_chain, lines 220-225, called at line 645
MemChain ==
    /\ rpc = "start"
    /\ IF TooShort(l_seq)
       THEN rpc' = "chained"
       ELSE rpc' = "seeding"
    /\ UNCHANGED <<opt, l_pac, l_seq, itr, pend, tree, chn, chn0, flt, av0, av, samtext>>
    /\ UNCHANGED xvars
    /\ UNCHANGED bvars

\* The query starts bwt_smem1 may give the next interval: the iterator moves
\* through progressively increasing query positions
SmemStarts == itr.qbeg .. (l_seq - 1)

\* Lines 167-173: smem_next delivers an interval: its query start (not
\* before the start of the one before), its length and its number of
\* occurrences x[2]; line 173 skips it when too short or too repetitive.
NextIntv ==
    /\ rpc = "seeding"
    /\ pend.k = 0
    /\ itr.n < MaxIntv
    /\ \E qbeg \in SmemStarts, slen \in 1 .. l_seq, x2 \in 1 .. (opt.max_occ + 1) :
          /\ qbeg + slen <= l_seq
          /\ itr' = [n |-> itr.n + 1, qbeg |-> qbeg]
          /\ pend' = IF slen < opt.min_seed_len \/ x2 > opt.max_occ
                     THEN NoPend
                     ELSE [qbeg |-> qbeg, len |-> slen, k |-> x2, used |-> {}]
    /\ UNCHANGED <<opt, l_pac, l_seq, rpc, tree, chn, chn0, flt, av0, av, samtext>>
    /\ UNCHANGED xvars
    /\ UNCHANGED bvars

\* lines 174-190: one occurrence of the interval, at the reference position
\* bwt_sa gives for it
InsertSeed ==
    /\ rpc = "seeding"
    /\ pend.k > 0
    /\ \E rbeg \in (0 .. (2 * l_pac - pend.len)) \ pend.used :
          LET s == [qbeg |-> pend.qbeg, rbeg |-> rbeg, len |-> pend.len]
          IN  /\ pend' = IF pend.k = 1 THEN NoPend
                          ELSE [pend EXCEPT !.k = @ - 1, !.used = @ \cup {rbeg}]
              /\ IF Len(tree) > 0 /\ LowerSet(tree, rbeg) # {}
                 THEN \E lo \in LowerSet(tree, rbeg) :
                         LET tm == test_and_merge(tree[lo], s)
                         IN  IF tm.ret = 1
                             THEN tree' = [tree EXCEPT ![lo] = tm.c]
                             ELSE \E i \in PutPlaces(tree, NewChain(s)) :
                                     tree' = PutAt(tree, i, NewChain(s))
                 ELSE \E i \in PutPlaces(tree, NewChain(s)) :
                         tree' = PutAt(tree, i, NewChain(s))
    /\ UNCHANGED <<opt, l_pac, l_seq, rpc, itr, chn, chn0, flt, av0, av, samtext>>
    /\ UNCHANGED xvars
    /\ UNCHANGED bvars

\* smem_next returns 0 (line 167); lines 227-235: the chains leave the tree
\* in key order
ChainDone ==
    /\ rpc = "seeding"
    /\ pend.k = 0
    /\ chn' = tree
    /\ tree' = <<>>
    /\ itr' = [itr EXCEPT !.qbeg = 0]
    /\ rpc' = "chained"
    /\ UNCHANGED <<opt, l_pac, l_seq, pend, chn0, flt, av0, av, samtext>>
    /\ UNCHANGED xvars
    /\ UNCHANGED bvars

(***************************************************************************)
(* mem_chain_flt, lines 250-325.                                           *)
(***************************************************************************)
\* lines 260-265
RECURSIVE CovLoop1(_, _, _, _)
CovLoop1(seeds, j, end, w) ==
    IF j > Len(seeds) THEN w
    ELSE LET s == seeds[j]
             w1 == IF s.qbeg >= end THEN w + s.len
                   ELSE IF s.qbeg + s.len > end THEN w + s.qbeg + s.len - end
                   ELSE w
         IN  CovLoop1(seeds, j + 1, Max(end, s.qbeg + s.len), w1)

\* lines 267-272
RECURSIVE CovLoop2(_, _, _, _)
CovLoop2(seeds, j, end, w) ==
    IF j > Len(seeds) THEN w
    ELSE LET s == seeds[j]
             w1 == IF s.rbeg >= end THEN w + s.len
                   ELSE IF s.rbeg + s.len > end THEN w + s.rbeg + s.len - end
                   ELSE w
         IN  CovLoop2(seeds, j + 1, Max(end, s.qbeg + s.len), w1)

\* lines 259-273: w at line 276
ChainWeight(c) ==
    LET tmp == CovLoop1(c.seeds, 1, 0, 0)
        w == CovLoop2(c.seeds, 1, 0, tmp)
    IN  IF w < tmp THEN w ELSE tmp

\* lines 274-276: a[i], with the chain a[i].p points to
FltAux(c) ==
    [beg |-> c.seeds[1].qbeg,
     end |-> c.seeds[Len(c.seeds)].qbeg + c.seeds[Len(c.seeds)].len,
     w |-> ChainWeight(c), c |-> c, p |-> 0, p2 |-> 0]

\* line 247
flt_lt(a, b) == a.w > b.w

\* ks_introsort(mem_flt, n_chn, a), line 278: any arrangement the comparison
\* accepts as sorted; lines 279-288 then put the chains in the same order and
\* make a[i].p point to chains[i]
SortsFlt(cs) ==
    {s \in {[i \in 1 .. Len(cs) |-> [FltAux(cs[p[i]]) EXCEPT !.p = i]] : p \in Perms(Len(cs))} :
        \A i, j \in 1 .. Len(s) : i < j => ~flt_lt(s[j], s[i])}

\* line 297: candidate ai is dropped because of the accepted aj
Drops(ai, aj) ==
    /\ LtFrac(ai.w, aj.w, opt.chain_drop_ratio)
    /\ aj.w - ai.w >= 2 * opt.min_seed_len

\* line 296: the chain recorded with the accepted a[j]
RecordP2Mut(aj, ai) == aj.p2

RecordP2(aj, ai) == IF aj.p2 = 0 THEN ai.p ELSE aj.p2

\* lines 290-301: candidate ai against the accepted a[j..n-1]
RECURSIVE FltInner(_, _, _)
FltInner(acc, ai, j) ==
    IF j > Len(acc) THEN [acc |-> acc, brk |-> FALSE]
    ELSE LET aj == acc[j]
             b_max == Max(aj.beg, ai.beg)
             e_min == Min(aj.end, ai.end)
             min_l == Min(ai.end - ai.beg, aj.end - aj.beg)
         IN  IF e_min > b_max /\ GeFrac(e_min - b_max, min_l, opt.mask_level)
             THEN LET acc1 == [acc EXCEPT ![j].p2 = RecordP2(aj, ai)]
                  IN  IF Drops(ai, aj)
                      THEN [acc |-> acc1, brk |-> TRUE]
                      ELSE FltInner(acc1, ai, j + 1)
             ELSE FltInner(acc, ai, j + 1)

\* lines 289-303, from candidate i on; acc is a[0..n-1]
RECURSIVE FltScan(_, _, _)
FltScan(a, acc, i) ==
    IF i > Len(a) THEN acc
    ELSE LET r == FltInner(acc, a[i], 1)
         IN  FltScan(a, IF r.brk THEN r.acc ELSE Append(r.acc, a[i]), i + 1)

\* lines 304-309: the chains marked to be kept
KeptChains(acc) ==
    {acc[i].p : i \in 1 .. Len(acc)} \cup ({acc[i].p2 : i \in 1 .. Len(acc)} \ {0})

\* lines 311-323: the chains that are left, in the order of the array
RECURSIVE Squeeze(_, _, _)
Squeeze(a, kept, i) ==
    IF i > Len(a) THEN <<>>
    ELSE (IF i \in kept THEN <<a[i].c>> ELSE <<>>) \o Squeeze(a, kept, i + 1)

\* mem_chain_flt(opt, n_chn, chains), a being the sorted array of line 278
mem_chain_flt(cs, a) ==
    IF Len(cs) <= 1
    THEN [a |-> <<>>, acc |-> <<>>, kept |-> 1 .. Len(cs), freed |-> {}, ret |-> cs]
    ELSE LET acc == FltScan(a, <<a[1]>>, 2)
             kept == KeptChains(acc)
         IN  [a |-> a, acc |-> acc, kept |-> kept,
              freed |-> (1 .. Len(a)) \ kept, ret |-> Squeeze(a, kept, 1)]

\* line 646: chn.n = mem_chain_flt(opt, chn.n, chn.a)
Flt ==
    /\ rpc = "chained"
    /\ chn0' = chn
    /\ \E a \in SortsFlt(chn) :
          LET r == mem_chain_flt(chn, a)
          IN  /\ flt' = r
              /\ chn' = r.ret
    /\ rpc' = "filtered"
    /\ UNCHANGED <<opt, l_pac, l_seq, itr, pend, tree, av0, av, samtext>>
    /\ UNCHANGED xvars
    /\ UNCHANGED bvars

\* the options looked at for chaining and filtering
ChainOpts ==
    {[DefaultOpt EXCEPT !.w = w, !.max_chain_gap = g, !.min_seed_len = msl, !.max_occ = 2] :
        w \in {0, 1}, g \in {1, 2}, msl \in {1, 2}}

InitChain ==
    /\ BatchIdle
    /\ opt \in ChainOpts
    /\ l_pac = MaxLpac
    /\ l_seq \in {1, MaxQ}
    /\ rpc = "start"
    /\ ChainIdle
    /\ av = <<>>
    /\ av0 = <<>>
    /\ samtext = <<>>

NextChain ==
    \/ MemChain
    \/ NextIntv
    \/ InsertSeed
    \/ ChainDone
    \/ Flt

SpecChain == InitChain /\ [][NextChain]_vars

(***************************************************************************)
(* mem_chain2aln, lines 388-458, and find_alnreg, lines 638-658.           *)
(***************************************************************************)
\* (int) of the quotient num / den: C truncates towards zero
TruncDiv(num, den) == IF num >= 0 THEN num \div den ELSE -((-num) \div den)

\* lines 388-392
cal_max_gap(qlen) ==
    LET l == TruncDiv(qlen * opt.a - opt.q + opt.r, opt.r)
    IN  IF l > 1 THEN l ELSE 1

\* lines 407-408: b and e of seed t
SpanB(t) == t.rbeg - (t.qbeg + cal_max_gap(t.qbeg))

SpanE(t) ==
    t.rbeg + t.len + ((l_seq - t.qbeg - t.len) + cal_max_gap(l_seq - t.qbeg - t.len))

\* lines 403-412: rmax[0] and rmax[1]
RMax0(c) ==
    LET S == {2 * l_pac} \cup {SpanB(c.seeds[i]) : i \in 1 .. Len(c.seeds)}
    IN  CHOOSE m \in S : \A x \in S : m <= x

RMax1(c) ==
    LET S == {0} \cup {SpanE(c.seeds[i]) : i \in 1 .. Len(c.seeds)}
    IN  CHOOSE m \in S : \A x \in S : m >= x

\* bns_get_seq (line 414): whether rlen comes back as rmax[1] - rmax[0]; the
\* slice is truncated when it leaves the packed reference and may be
\* truncated at a boundary inside it
GetSeqFull(b, e) == IF 0 <= b /\ e <= 2 * l_pac THEN {TRUE, FALSE} ELSE {FALSE}

\* ksw_extend (lines 430 and 439): the score and the query and target lengths
\* of the best extension of a query of qlen against a target of tlen from the
\* score h0, within the band opt.w
ksw_extend(qlen, tlen, h0) ==
    {[score |-> h0, qle |-> 0, tle |-> 0]} \cup
    {e \in [score : (h0 + 1) .. (h0 + opt.a * Min(qlen, tlen)), qle : 1 .. qlen, tle : 1 .. tlen] :
        /\ e.qle - e.tle <= opt.w
        /\ e.tle - e.qle <= opt.w
        /\ e.score <= h0 + opt.a * Min(e.qle, e.tle)}

\* lines 444-448
SeedCov(c, a) ==
    LET In == {i \in 1 .. Len(c.seeds) :
                  /\ c.seeds[i].qbeg >= a.qb
                  /\ c.seeds[i].qbeg + c.seeds[i].len <= a.qe
                  /\ c.seeds[i].rbeg >= a.rb
                  /\ c.seeds[i].rbeg + c.seeds[i].len <= a.re}
        RECURSIVE Sum(_)
        Sum(S) == IF S = {} THEN 0
                  ELSE LET i == CHOOSE i \in S : TRUE IN c.seeds[i].len + Sum(S \ {i})
    IN  Sum(In)

\* lines 419-448: the regions the extension of seed k may give
SeedRegions(c, k, rmax0, rmax1) ==
    LET s == c.seeds[k]
        Lefts == IF s.qbeg # 0
                 THEN {[score |-> e.score, qb |-> s.qbeg - e.qle, rb |-> s.rbeg - e.tle] :
                          e \in ksw_extend(s.qbeg, s.rbeg - rmax0, s.len * opt.a)}
                 ELSE {[score |-> s.len * opt.a, qb |-> 0, rb |-> s.rbeg]}
        Rights(l) == IF s.qbeg + s.len # l_seq
                     THEN LET qe == s.qbeg + s.len
                              re == s.rbeg + s.len - rmax0
                          IN  {[score |-> e.score, qe |-> qe + e.qle, re |-> rmax0 + re + e.tle] :
                                  e \in ksw_extend(l_seq - qe, rmax1 - rmax0 - re, l.score)}
                     ELSE {[score |-> l.score, qe |-> l_seq, re |-> s.rbeg + s.len]}
        Region(l, r) == LET a == Reg(l.qb, r.qe, l.rb, r.re, r.score, 0)
                        IN  [a EXCEPT !.seedcov = SeedCov(c, a)]
    IN  UNION {{Region(l, r) : r \in Rights(l)} : l \in Lefts}

\* lines 452-453: the loop looking for the next seed stops at seed i
StopsAt(c, i, a) ==
    LET t == c.seeds[i]
        tp == c.seeds[i - 1]
    IN  \/ tp.rbeg + tp.len >= t.rbeg + 7
        \/ tp.qbeg + tp.len >= t.qbeg + 7
        \/ t.rbeg + t.len > a.re
        \/ t.qbeg + t.len > a.qe

\* lines 450-455: the seed extended after seed k gave region a
NextSeed(c, k, a) ==
    LET S == {i \in (k + 1) .. Len(c.seeds) : StopsAt(c, i, a)}
    IN  IF S = {} THEN Len(c.seeds) + 1 ELSE CHOOSE i \in S : \A j \in S : i <= j

\* lines 417-456: the passes of the loop from seed k on, each with the seed
\* it extends (1-based) and the region it pushes
RECURSIVE RegionsFrom(_, _, _, _)
RegionsFrom(c, k, rmax0, rmax1) ==
    IF k > Len(c.seeds) THEN {<<>>}
    ELSE UNION {{<<[k |-> k, a |-> a]>> \o rest :
                    rest \in RegionsFrom(c, NextSeed(c, k, a), rmax0, rmax1)} :
                   a \in SeedRegions(c, k, rmax0, rmax1)}

\* what av holds after the passes st
StepRegions(st) == [j \in 1 .. Len(st) |-> st[j].a]

\* mem_chain2aln: whether the slice came back whole (line 415) and the passes
\* of the loop
mem_chain2aln(c) ==
    UNION {IF full
           THEN {[full |-> TRUE, steps |-> st] : st \in RegionsFrom(c, 1, RMax0(c), RMax1(c))}
           ELSE {[full |-> FALSE, steps |-> <<>>]} :
              full \in GetSeqFull(RMax0(c), RMax1(c))}

\* lines 649-654, one chain: its regions are pushed, its seeds freed
Chain2Aln ==
    /\ rpc \in {"filtered", "extending"}
    /\ chn # <<>>
    /\ \E x \in mem_chain2aln(Head(chn)) :
          /\ av' = av \o StepRegions(x.steps)
          /\ ext' = [c |-> Head(chn), full |-> x.full, steps |-> x.steps]
    /\ chn' = Tail(chn)
    /\ rpc' = "extending"
    /\ UNCHANGED <<opt, l_pac, l_seq, itr, pend, tree, chn0, flt, av0, samtext, gc>>
    /\ UNCHANGED bvars

\* line 655, every chain done
FreeChains ==
    /\ rpc \in {"filtered", "extending"}
    /\ chn = <<>>
    /\ rpc' = "regs"
    /\ UNCHANGED <<opt, l_pac, l_seq, itr, pend, tree, chn, chn0, flt, av0, av, samtext>>
    /\ UNCHANGED xvars
    /\ UNCHANGED bvars

\* the options looked at for a whole read
ReadOpts ==
    {[DefaultOpt EXCEPT !.w = w, !.max_chain_gap = 2, !.min_seed_len = msl, !.max_occ = 1] :
        w \in {0, 1}, msl \in {1, 2}}

InitRead ==
    /\ BatchIdle
    /\ opt \in ReadOpts
    /\ l_pac = MaxLpac
    /\ l_seq \in {1, MaxQ}
    /\ rpc = "start"
    /\ ChainIdle
    /\ av = <<>>
    /\ av0 = <<>>
    /\ samtext = <<>>

NextRead ==
    \/ MemChain
    \/ NextIntv
    \/ InsertSeed
    \/ ChainDone
    \/ Flt
    \/ Chain2Aln
    \/ FreeChains
    \/ Dedup
    \/ MarkPrimary
    \/ SamSe

SpecRead == InitRead /\ [][NextRead]_vars

(***************************************************************************)
(* bwa_gen_cigar in full, lines 464-496, called on its own and from        *)
(* bwa_hit2sam (line 523).  The read is s->seq, the query handed over is   *)
(* &s->seq[qb] with l_query = qe - qb.                                     *)
(***************************************************************************)
Abs(x) == IF x < 0 THEN -x ELSE x

\* lines 475-476 (and 490-491): seq with the l bases from qb on reversed
ReverseIn(seq, qb, l) ==
    [i \in 1 .. Len(seq) |->
        IF qb < i /\ i <= qb + l THEN seq[2 * qb + l + 1 - i] ELSE seq[i]]

\* lines 489-491: reverse back query
ReverseBackMut(seq, qb, l) == seq

ReverseBack(seq, qb, l) == ReverseIn(seq, qb, l)

\* lines 483-486: the band width handed to ksw_global
BandWidth(l_query, rlen) ==
    LET w0 == TruncDiv(l_query * opt.a - opt.q + opt.r, opt.r)
        w1 == IF w0 < 1 THEN w0 ELSE 1
        w2 == IF w1 < opt.w THEN w1 ELSE opt.w
    IN  w2 + Abs(rlen - l_query)

\* bwa_gen_cigar on s->seq = seq: whether ksw_global was called, with which
\* band and which query, whether *n_cigar > 0, and s->seq on return
GenCigar(seq, qb, qe, rb, re, e) ==
    LET l_query == qe - qb
        none == [kernel |-> FALSE, band |-> 0, kq |-> <<>>, cigar |-> FALSE, seq |-> seq]
    IN  IF l_query <= 0 \/ rb >= re \/ (rb < l_pac /\ re > l_pac) THEN none
        ELSE IF e = "short" THEN none
        ELSE LET s1 == IF rb >= l_pac THEN ReverseIn(seq, qb, l_query) ELSE seq
                 s2 == IF rb >= l_pac THEN ReverseBack(s1, qb, l_query) ELSE s1
             IN  [kernel |-> TRUE,
                  band |-> BandWidth(l_query, re - rb),
                  kq |-> SubSeq(s1, qb + 1, qe),
                  cigar |-> bwa_gen_cigar(l_query, rb, re, e),
                  seq |-> s2]

\* the hit bwa_hit2sam is handed for the region [qb,qe) x [rb,re)
CigarHit(g) ==
    [null |-> FALSE, rb |-> g.rb, re |-> g.re, qb |-> g.qb, qe |-> g.qe,
     score |-> 0, sub |-> 0, qual |-> "0", flag |-> 0]

\* bwa_gen_cigar called on the arguments held in gc
GenCigarCall ==
    /\ rpc = "cigar"
    /\ gc.pc = "call"
    /\ \E e \in ExtCigar :
          LET g == GenCigar(gc.seq0, gc.qb, gc.qe, gc.rb, gc.re, e)
          IN  gc' = [pc |-> "ret", via |-> "direct", called |-> TRUE,
                     seq0 |-> gc.seq0, qb |-> gc.qb, qe |-> gc.qe, rb |-> gc.rb, re |-> gc.re,
                     kernel |-> g.kernel, band |-> g.band, kq |-> g.kq,
                     cigar |-> g.cigar, seq |-> g.seq]
    /\ UNCHANGED <<opt, l_pac, l_seq, rpc, av0, av, samtext, ext>>
    /\ UNCHANGED cvars
    /\ UNCHANGED bvars

\* bwa_hit2sam called without mate on the hit held in gc (lines 507-545):
\* bwa_gen_cigar is called when the hit is mapped (lines 521-523)
Hit2SamCall ==
    /\ rpc = "cigar"
    /\ gc.pc = "call"
    /\ \E e \in ExtCigar :
          LET g == GenCigar(gc.seq0, gc.qb, gc.qe, gc.rb, gc.re, e)
              h == CigarHit(gc)
              none == [kernel |-> FALSE, band |-> 0, kq |-> <<>>, cigar |-> FALSE, seq |-> gc.seq0]
              r == IF is_mapped(h) THEN g ELSE none
          IN  /\ gc' = [pc |-> "ret", via |-> "hit2sam", called |-> is_mapped(h),
                        seq0 |-> gc.seq0, qb |-> gc.qb, qe |-> gc.qe, rb |-> gc.rb, re |-> gc.re,
                        kernel |-> r.kernel, band |-> r.band, kq |-> r.kq,
                        cigar |-> r.cigar, seq |-> r.seq]
              /\ samtext' = <<bwa_hit2sam(h, NullHit, e)>>
    /\ UNCHANGED <<opt, l_pac, l_seq, rpc, av0, av, ext>>
    /\ UNCHANGED cvars
    /\ UNCHANGED bvars

\* the scoring and band options looked at for bwa_gen_cigar
CigarOpts ==
    {[DefaultOpt EXCEPT !.a = a, !.q = q, !.r = r, !.w = w] :
        a \in {1, 2}, q \in {0, 6}, r \in {1, 2}, w \in {0, 1, 100}}

\* the arguments: a read of l_seq bases, a query range in it, a reference
\* range in the packed reference
CigarArgs(lseq, lpac) ==
    {g \in [pc : {"call"}, seq0 : [1 .. lseq -> {0, 1}], qb : 0 .. lseq, qe : 0 .. lseq,
            rb : 0 .. (2 * lpac), re : 0 .. (2 * lpac)] : g.qb <= g.qe}

InitCigar ==
    /\ BatchIdle
    /\ opt \in CigarOpts
    /\ l_pac = MaxLpac
    /\ l_seq = MaxQ
    /\ rpc = "cigar"
    /\ itr = [n |-> 0, qbeg |-> 0]
    /\ pend = NoPend
    /\ tree = <<>>
    /\ chn = <<>>
    /\ chn0 = <<>>
    /\ flt = NoFlt
    /\ ext = NoExt
    /\ gc \in CigarArgs(l_seq, l_pac)
    /\ av = <<>>
    /\ av0 = <<>>
    /\ samtext = <<>>

NextCigar ==
    \/ GenCigarCall
    \/ Hit2SamCall

SpecCigar == InitCigar /\ [][NextCigar]_vars

(***************************************************************************)
(* Claims about the batch driver.                                          *)
(***************************************************************************)
Pass2Over == mpc \in {"out", "done"}

\* the loop counter value under which worker2 handles read i
Unit(i) == IF flag_pe THEN i \div 2 ELSE i

\* C1: with worker threads, in each pass thread k handles exactly the indices
\* k, k+T, k+2T, ... below the pass's bound: no read is handled by two threads
\* of a pass, and once a pass is over every read (pair) below its bound has
\* been handled by exactly one thread.
C1_RoundRobinPartition ==
    have_pthread =>
        /\ \A i \in Reads : \A k \in by1[i] : i % n_threads = k
        /\ \A i \in Reads : \A k \in by2[i] : Unit(i) % n_threads = k
        /\ \A i \in Reads : Cardinality(by1[i]) <= 1 /\ Cardinality(by2[i]) <= 1
        /\ Pass2Over =>
              \A i \in Reads : (i < n => Cardinality(by1[i]) = 1)
                               /\ (Unit(i) < W2Bound => Cardinality(by2[i]) = 1)

Pass2Started == \E k \in Workers : wpc[k] \in {"w2", "w2free", "ret2"}

OutIdx == [j \in 1 .. Len(out) |-> out[j].idx]

C10_SequentialCoversAll ==
    (~have_pthread /\ ~flag_pe /\ Pass2Over) =>
        \A i \in Reads : i < n =>
            /\ Cardinality(by1[i]) = 1 /\ regs[i] # "uninit"
            /\ Cardinality(by2[i]) = 1 /\ sam[i] # "uninit"

(***************************************************************************)
(* Claims about the regions and the SAM text of one read.                  *)
(***************************************************************************)
Triple(r) == <<r.score, r.rb, r.qb>>

Triples(a) == {Triple(a[i]) : i \in 1 .. Len(a)}

\* x comes strictly before y in the order (score descending, rb ascending, qb ascending)
TripleBefore(x, y) ==
    \/ x[1] > y[1]
    \/ x[1] = y[1] /\ x[2] < y[2]
    \/ x[1] = y[1] /\ x[2] = y[2] /\ x[3] < y[3]

\* C5: the array mem_sort_and_dedup returns is sorted by (score descending,
\* rb ascending, qb ascending), no two of its regions share (score, rb, qb),
\* every (score, rb, qb) of the input is still present, and every surviving
\* region is a region of the input.
C5_SortedDedup ==
    rpc = "deduped" =>
        /\ \A i, j \in 1 .. Len(av) : i < j => TripleBefore(Triple(av[i]), Triple(av[j]))
        /\ Triples(av) = Triples(av0)
        /\ \A i \in 1 .. Len(av) : \E j \in 1 .. Len(av0) : av[i] = av0[j]

\* C5 witness: an unsorted input of three regions, two of them with the same
\* (score, rb, qb), has been reduced to two regions.
C5_Witness ==
    /\ rpc = "deduped"
    /\ Len(av0) = 3 /\ Len(av) = 2
    /\ TripleBefore(Triple(av0[3]), Triple(av0[1]))
    /\ \E i, j \in 1 .. 3 : i # j /\ Triple(av0[i]) = Triple(av0[j]) /\ av0[i].qe # av0[j].qe

\* C6: after mem_mark_primary_se every region i with secondary = j >= 0 has
\* j < i, region j primary, and a query overlap with j of at least
\* mask_level * min(len_i, len_j); region 0 is primary.
C6_SecondaryHasPrimary ==
    rpc = "marked" =>
        /\ Len(av) > 0 => av[1].secondary = -1
        /\ \A i \in 1 .. Len(av) :
              LET j == av[i].secondary
              IN  /\ j >= -1
                  /\ j >= 0 =>
                        /\ j + 1 < i
                        /\ av[j + 1].secondary = -1
                        /\ (Min(av[i].qe, av[j + 1].qe) - Max(av[i].qb, av[j + 1].qb)) * opt.mask_level.den
                              >= opt.mask_level.num * Min(av[i].qe - av[i].qb, av[j + 1].qe - av[j + 1].qb)

\* C6 witness: three regions, the third one secondary to the second one,
\* which it overlaps while it has another, insignificant overlap with the first.
C6_Witness ==
    /\ rpc = "marked"
    /\ Len(av) = 3
    /\ av[2].secondary = -1
    /\ av[3].secondary = 1
    /\ Min(av[3].qe, av[1].qe) > Max(av[3].qb, av[1].qb)

Primaries(a) == {i \in 1 .. Len(a) : a[i].secondary < 0}

\* C3 as stated: a read that is unmapped or failed (no region, or no CIGAR
\* operation for its regions) gets exactly one line, with FLAG 0x4.
C3_OneLineWhenFailed ==
    (rpc = "done" /\ \A i \in 1 .. Len(samtext) : samtext[i].cigar = "*") =>
        Len(samtext) = 1 /\ HasBit(samtext[1].flag, 4)

\* C3 as amended: a read without region gets exactly one line, with FLAG 0x4;
\* a read with regions gets one line per primary region, at least one; and
\* every line without CIGAR operations has FLAG 0x4.
C3_LinePerPrimary ==
    rpc = "done" =>
        /\ Len(samtext) >= 1
        /\ Len(av) = 0 => Len(samtext) = 1
        /\ Len(av) > 0 => Len(samtext) = Cardinality(Primaries(av))
        /\ \A i \in 1 .. Len(samtext) : samtext[i].cigar = "*" => HasBit(samtext[i].flag, 4)

\* C3 witness: a read with two primary regions on the reference, neither of
\* which got a CIGAR, has two lines with FLAG 0x4.
C3_Witness ==
    /\ rpc = "done"
    /\ Len(samtext) = 2
    /\ \A i \in 1 .. 2 : /\ samtext[i].cigar = "*"
                         /\ samtext[i].rname = "ref"
                         /\ HasBit(samtext[i].flag, 4)

(***************************************************************************)
(* Claims about chaining and chain filtering.                              *)
(***************************************************************************)
\* the chains the program holds: in the tree while seeding, in the vector after
AllChains ==
    {tree[i] : i \in 1 .. Len(tree)} \cup {chn[i] : i \in 1 .. Len(chn)}

ColinearPair(sp, sn) ==
    LET x == sn.qbeg - sp.qbeg
        y == sn.rbeg - sp.rbeg
    IN  /\ x >= 0
        /\ y >= 0
        /\ x - y <= opt.w
        /\ y - x <= opt.w
        /\ x - sp.len < opt.max_chain_gap
        /\ y - sp.len < opt.max_chain_gap

CoveredQ(c) ==
    UNION {c.seeds[i].qbeg .. (c.seeds[i].qbeg + c.seeds[i].len - 1) : i \in 1 .. Len(c.seeds)}

CoveredR(c) ==
    UNION {c.seeds[i].rbeg .. (c.seeds[i].rbeg + c.seeds[i].len - 1) : i \in 1 .. Len(c.seeds)}

\* C8: the weight mem_chain_flt gives a chain is the smaller of the number
\* of query positions and the number of reference positions its seeds cover.
C8_WeightIsMinCover ==
    rpc = "filtered" =>
        \A i \in 1 .. Len(flt.a) :
            flt.a[i].w = Min(Cardinality(CoveredQ(flt.a[i].c)), Cardinality(CoveredR(flt.a[i].c)))

\* candidate ai overlaps aj significantly on the query
OverlapsQ(aj, ai) ==
    LET b_max == Max(aj.beg, ai.beg)
        e_min == Min(aj.end, ai.end)
        min_l == Min(ai.end - ai.beg, aj.end - aj.beg)
    IN  e_min > b_max /\ (e_min - b_max) * opt.mask_level.den >= min_l * opt.mask_level.num

\* the accepted aj makes the scan reject candidate ai
Beats(aj, ai) ==
    /\ OverlapsQ(aj, ai)
    /\ ai.w * opt.chain_drop_ratio.den < aj.w * opt.chain_drop_ratio.num
    /\ aj.w - ai.w >= 2 * opt.min_seed_len

\* the candidates among a[1..i] the weight-descending scan accepts
RECURSIVE AcceptedUpTo(_, _)
AcceptedUpTo(a, i) ==
    IF i = 0 THEN {}
    ELSE LET prev == AcceptedUpTo(a, i - 1)
         IN  IF \E j \in prev : Beats(a[j], a[i]) THEN prev ELSE prev \cup {i}

\* the chains of a at the places in S, in the order of a
RECURSIVE ChainsAt(_, _, _)
ChainsAt(a, S, i) ==
    IF i > Len(a) THEN <<>>
    ELSE (IF i \in S THEN <<a[i].c>> ELSE <<>>) \o ChainsAt(a, S, i + 1)

\* C9 as stated: the chains returned are exactly the accepted ones, in
\* accepted order; every rejected candidate is absent and freed.
C9_ReturnsExactlyAccepted ==
    (rpc = "filtered" /\ Len(chn0) >= 2) =>
        LET acc == AcceptedUpTo(flt.a, Len(flt.a))
        IN  /\ flt.ret = ChainsAt(flt.a, acc, 1)
            /\ flt.freed = (1 .. Len(flt.a)) \ acc

\* the candidates examined against the accepted a[j]: those after it that
\* overlap it and that no chain accepted before a[j] rejects
ReachesAccepted(a, acc, j) ==
    {i \in (j + 1) .. Len(a) :
        /\ OverlapsQ(a[j], a[i])
        /\ \A k \in acc : k < j => ~Beats(a[k], a[i])}

\* the first candidate that overlaps the accepted a[j], for each accepted j
FirstOverlapping(a, acc) ==
    {i \in 1 .. Len(a) :
        \E j \in acc :
            /\ i \in ReachesAccepted(a, acc, j)
            /\ \A i2 \in ReachesAccepted(a, acc, j) : i <= i2}

\* C9 (amended): the chains returned are, in weight order and with their
\* seeds unchanged, the accepted chains and, for each accepted chain, the
\* first candidate found to overlap it significantly, rejected or not; the
\* other rejected candidates are freed and absent.
C9_ReturnsAcceptedAndFirstOverlapping ==
    (rpc = "filtered" /\ Len(chn0) >= 2) =>
        LET a == flt.a
            acc == AcceptedUpTo(a, Len(a))
            keep == acc \cup FirstOverlapping(a, acc)
        IN  /\ Len(a) = Len(chn0)
            /\ \E p \in Perms(Len(a)) : \A i \in 1 .. Len(a) : a[i].c = chn0[p[i]]
            /\ \A i \in 1 .. (Len(a) - 1) : a[i].w >= a[i + 1].w
            /\ flt.ret = ChainsAt(a, keep, 1)
            /\ chn = flt.ret
            /\ flt.freed = (1 .. Len(a)) \ keep

\* three chains: the best accepted, one rejected but returned, one rejected
\* and freed
C9_Witness ==
    /\ rpc = "filtered"
    /\ Len(flt.a) = 3
    /\ AcceptedUpTo(flt.a, 3) = {1}
    /\ Beats(flt.a[1], flt.a[2])
    /\ Beats(flt.a[1], flt.a[3])
    /\ Len(flt.ret) = 2
    /\ flt.freed = {3}

(***************************************************************************)
(* Claims about one read from mem_chain to its SAM text.                   *)
(***************************************************************************)
\* C4: a read shorter than min_seed_len never reaches the SMEM iterator, has
\* no chain and no region at any stage, and gets one SAM line, unmapped:
\* FLAG with 0x4, RNAME '*', POS 0, MAPQ 0, CIGAR '*'.
C4_ShortReadUnmapped ==
    l_seq < opt.min_seed_len =>
        /\ rpc # "seeding"
        /\ itr.n = 0
        /\ tree = <<>>
        /\ chn = <<>>
        /\ flt.ret = <<>>
        /\ av = <<>>
        /\ rpc = "done" =>
              /\ Len(samtext) = 1
              /\ HasBit(samtext[1].flag, 4)
              /\ samtext[1].rname = "*"
              /\ samtext[1].pos = "0"
              /\ samtext[1].mapq = "0"
              /\ samtext[1].cigar = "*"

\* the SAM text of a read of one base has been written with min_seed_len = 2
C4_Witness ==
    /\ l_seq < opt.min_seed_len
    /\ rpc = "done"
    /\ Len(samtext) = 1

(***************************************************************************)
(* Claims about mem_chain2aln.                                             *)
(***************************************************************************)
\* seed t lies fully inside region a
InsideRegion(t, a) ==
    /\ t.qbeg >= a.qb /\ t.qbeg + t.len <= a.qe
    /\ t.rbeg >= a.rb /\ t.rbeg + t.len <= a.re

\* seed i of chain c overlaps seed i - 1 by less than 7 bp on both axes
ShortOverlap(c, i) ==
    /\ c.seeds[i - 1].qbeg + c.seeds[i - 1].len - c.seeds[i].qbeg < 7
    /\ c.seeds[i - 1].rbeg + c.seeds[i - 1].len - c.seeds[i].rbeg < 7

\* the seed to extend after seed k gave region a: the first later seed with a
\* short overlap with its predecessor or not fully inside a
StatedNextSeed(c, k, a) ==
    LET S == {i \in (k + 1) .. Len(c.seeds) :
                 ShortOverlap(c, i) \/ ~InsideRegion(c.seeds[i], a)}
    IN  IF S = {} THEN Len(c.seeds) + 1 ELSE CHOOSE i \in S : \A j \in S : i <= j

\* C11: after a region from seed k the next seed extended is the first later
\* seed that overlaps its predecessor by less than 7 bp or is not fully
\* inside the region; the chain gives 1 to c->n regions when the slice comes
\* back whole and none otherwise.
C11_NextSeedExtended ==
    rpc = "extending" =>
        LET c == ext.c
            st == ext.steps
        IN  IF ext.full
            THEN /\ Len(st) >= 1
                 /\ Len(st) <= Len(c.seeds)
                 /\ st[1].k = 1
                 /\ \A j \in 1 .. Len(st) :
                       (IF j < Len(st) THEN st[j + 1].k ELSE Len(c.seeds) + 1)
                           = StatedNextSeed(c, st[j].k, st[j].a)
            ELSE st = <<>>

(***************************************************************************)
(* Claims about bwa_gen_cigar.                                             *)
(***************************************************************************)
\* C12: the band width handed to the global-alignment kernel is
\* min(w_opt, max(1, floor((l_query*match - q)/r) + 1)) + |rlen - l_query|.
C12_BandWidthFormula ==
    (gc.pc = "ret" /\ gc.kernel) =>
        LET l_query == gc.qe - gc.qb
            rlen == gc.re - gc.rb
        IN  gc.band = Min(opt.w, Max(1, ((l_query * opt.a - opt.q) \div opt.r) + 1))
                          + Abs(rlen - l_query)

\* C13: for a reference window that straddles the strand boundary no CIGAR is
\* produced and the kernel is not reached, and the line bwa_hit2sam writes
\* has FLAG 0x4 and CIGAR '*'; whatever the return path of bwa_gen_cigar, the
\* read is on return what it was at entry, and on the reverse strand the
\* kernel is given the query reversed.
C13_StraddleAndQueryRestored ==
    gc.pc = "ret" =>
        /\ gc.seq = gc.seq0
        /\ (gc.rb < l_pac /\ gc.re > l_pac) =>
              /\ ~gc.cigar
              /\ ~gc.kernel
              /\ gc.via = "hit2sam" =>
                    /\ Len(samtext) = 1
                    /\ HasBit(samtext[1].flag, 4)
                    /\ samtext[1].cigar = "*"
        /\ gc.kernel =>
              \A i \in 1 .. Len(gc.kq) :
                  gc.kq[i] = IF gc.rb >= l_pac THEN gc.seq0[gc.qe + 1 - i] ELSE gc.seq0[gc.qb + i]

\* bwa_hit2sam has written the line of a mapped hit whose window straddles
\* the boundary, the query being no palindrome
C13_Witness ==
    /\ gc.pc = "ret"
    /\ gc.via = "hit2sam"
    /\ gc.called
    /\ gc.rb < l_pac /\ gc.re > l_pac
    /\ gc.qe - gc.qb >= 2
    /\ gc.seq0[gc.qb + 1] # gc.seq0[gc.qe]
    /\ Len(samtext) = 1

(***************************************************************************)
(* Claims about the lines of a read with regions.                          *)
(***************************************************************************)
\* the primary regions of a, in the order of a
PrimarySeq(a) ==
    SelectSeq([i \in 1 .. Len(a) |-> i], LAMBDA i : a[i].secondary = -1)

\* C14: a read with at least one region after mem_mark_primary_se gets one
\* SAM line per primary region, in the order of the sorted regions, none for
\* a secondary region; so it gets at least one line, and no line has FLAG
\* 0x100.
C14_OneLinePerPrimaryInOrder ==
    (rpc = "done" /\ Len(av) >= 1) =>
        LET P == PrimarySeq(av)
        IN  /\ \A i \in 1 .. Len(av) : av[i].secondary = -1 \/ av[i].secondary >= 0
            /\ \A i, k \in 1 .. Len(av) : i < k => TripleBefore(Triple(av[i]), Triple(av[k]))
            /\ Len(samtext) = Len(P)
            /\ Len(samtext) >= 1
            /\ \A j \in 1 .. Len(P) :
                  /\ samtext[j].AS = av[P[j]].score
                  /\ HasBit(samtext[j].flag, 16) <=> av[P[j]].rb >= l_pac
                  /\ ~HasBit(samtext[j].flag, 256)

\* three regions, the second one secondary, the two primary ones on
\* different strands: two lines
C14_Witness ==
    /\ rpc = "done"
    /\ Len(av) = 3
    /\ av[1].secondary = -1
    /\ av[2].secondary >= 0
    /\ av[3].secondary = -1
    /\ av[1].rb >= l_pac
    /\ av[3].rb < l_pac
    /\ Len(samtext) = 2

====
